---- MODULE Spec2Model ----
(***************************************************************************)
(* TopicRNN (library/models/topic_rnn.py): the vocabulary's stopless       *)
(* namespace, model construction, and the forward computation.             *)
(*                                                                         *)
(* A vocabulary namespace is a sequence of tokens; the index of a token is *)
(* its position minus one (index 0 is the first element).  Tensors are     *)
(* sequences (rows) of sequences.  None is the empty sequence.             *)
(***************************************************************************)
EXTENDS Integers, Sequences, FiniteSets, TLC

VARIABLES full_ns, stopless_ns, saves, constructions, model, call, ret

vars == <<full_ns, stopless_ns, saves, constructions, model, call, ret>>

\* ------------------------------------------------------------------ bounds
MaxConstructions == 2
MaxForwards == 1
MaxBatch == 2
MaxLen == 2
MaxChunks == 2

\* --------------------------------------------------------------- constants
DEFAULT_PADDING_TOKEN == "@@PADDING@@"
DEFAULT_OOV_TOKEN == "@@UNKNOWN@@"
STOP_WORDS_2 == {"the", "of"}
None == <<>>

\* The vocabularies a model is constructed with: the "tokens" namespace in
\* index order.  The last one has the OOV token away from index 1.
FullNamespaces ==
    { <<DEFAULT_PADDING_TOKEN, DEFAULT_OOV_TOKEN, "cat", "the", "dog">>,
      <<DEFAULT_PADDING_TOKEN, DEFAULT_OOV_TOKEN, "the", "cat">>,
      <<DEFAULT_PADDING_TOKEN, "cat", DEFAULT_OOV_TOKEN, "the">> }

\* ------------------------------------------------------ sequence utilities
Range(s) == { s[i] : i \in 1..Len(s) }

RECURSIVE SumSeq(_)
SumSeq(s) == IF s = <<>> THEN 0 ELSE s[1] + SumSeq(Tail(s))

\* ------------------------------------------------- Vocabulary (allennlp)
\* Position (1-based) of a token in a namespace, 0 when absent.
PosOf(ns, token) ==
    IF token \in Range(ns)
    THEN CHOOSE i \in 1..Len(ns) : ns[i] = token /\ \A j \in 1..(i-1) : ns[j] # token
    ELSE 0

\* A padded namespace springs into existence on first access.
Touch(ns) == IF ns = <<>> THEN <<DEFAULT_PADDING_TOKEN, DEFAULT_OOV_TOKEN>> ELSE ns

\* vocab.get_token_index(token, namespace): the OOV index when absent.
GetTokenIndex(ns, token) ==
    IF token \in Range(ns) THEN PosOf(ns, token) - 1
    ELSE PosOf(ns, DEFAULT_OOV_TOKEN) - 1

\* vocab.get_token_from_index(index) in the "tokens" namespace.
GetTokenFromIndex(ns, index) == ns[index + 1]

\* vocab.add_token_to_namespace(token, namespace)
AddTokenToNamespace(ns, token) ==
    IF token \in Range(Touch(ns)) THEN Touch(ns) ELSE Append(Touch(ns), token)

\* The loop of __init__ over tokens_to_index.items(), in insertion order.
RECURSIVE AddStoplessTokens(_, _)
AddStoplessTokens(ns, tokens) ==
    IF tokens = <<>> THEN ns
    ELSE AddStoplessTokens(
            IF tokens[1] \notin STOP_WORDS_2
            THEN AddTokenToNamespace(ns, tokens[1]) ELSE ns,
            Tail(tokens))

\* The assertion guarding the construction of the stopless namespace.
PaddingOovAssertion(ns) ==
    /\ PosOf(ns, DEFAULT_PADDING_TOKEN) - 1 = 0
    /\ PosOf(ns, DEFAULT_OOV_TOKEN) - 1 = 1

\* ------------------------------------------ _compute_word_frequency_vector
\* words = [get_token_from_index(index) for index in row]
DecodeRow(ns, row) == [ j \in 1..Len(row) |-> GetTokenFromIndex(ns, row[j]) ]

\* Counter(words)[word]
CountOf(words, word) == Cardinality({ j \in 1..Len(words) : words[j] = word })

\* The keys of dict(Counter(words)), in order of first occurrence.
RECURSIVE DistinctInOrder(_, _)
DistinctInOrder(words, seen) ==
    IF words = <<>> THEN <<>>
    ELSE IF words[1] \in seen THEN DistinctInOrder(Tail(words), seen)
    ELSE <<words[1]>> \o DistinctInOrder(Tail(words), seen \cup {words[1]})

\* The inner loop without the padding exclusion: res[i][index] = count.
RECURSIVE AssignCountsKeepPadding(_, _, _, _, _)
AssignCountsKeepPadding(res, keys, words, stopless, tokens_to_index) ==
    IF keys = <<>> THEN res
    ELSE LET word == keys[1]
             index == GetTokenIndex(stopless, word)
             next == IF word \in tokens_to_index
                     THEN [res EXCEPT ![index + 1] = CountOf(words, word)]
                     ELSE res
         IN AssignCountsKeepPadding(next, Tail(keys), words, stopless,
                                    tokens_to_index)

\* The inner loop: res[i][index] = count * int(index > 0), an assignment.
RECURSIVE AssignCounts(_, _, _, _, _)
AssignCounts(res, keys, words, stopless, tokens_to_index) ==
    IF keys = <<>> THEN res
    ELSE LET word == keys[1]
             index == GetTokenIndex(stopless, word)
             count == CountOf(words, word)
             next == IF word \in tokens_to_index
                     THEN [res EXCEPT ![index + 1] =
                               count * (IF index > 0 THEN 1 ELSE 0)]
                     ELSE res
         IN AssignCounts(next, Tail(keys), words, stopless, tokens_to_index)

FrequencyRow(ns, stopless, tokens_to_index, row) ==
    LET words == DecodeRow(ns, row)
        zeros == [ k \in 1..Len(stopless) |-> 0 ]
    IN AssignCounts(zeros, DistinctInOrder(words, {}), words, stopless,
                    tokens_to_index)

\* stopless is the namespace after get_vocab_size("stopless") touched it.
ComputeWordFrequencyVector(ns, stopless, tokens_to_index, tokens) ==
    [ i \in 1..Len(tokens) |->
        FrequencyRow(ns, stopless, tokens_to_index, tokens[i]) ]

\* -------------------------------------------------- _compute_stopword_mask
\* A mask computed from the stop indices of the "tokens" namespace, where
\* a stopword outside the vocabulary has the OOV index.
StopwordRowByStopIndex(ns, row) ==
    [ j \in 1..Len(row) |->
        IF row[j] \in { GetTokenIndex(ns, stop) : stop \in STOP_WORDS_2 }
        THEN 1 ELSE 0 ]

StopwordRow(ns, row) ==
    LET words == DecodeRow(ns, row)
    IN [ j \in 1..Len(words) |-> IF words[j] \in STOP_WORDS_2 THEN 1 ELSE 0 ]

ComputeStopwordMask(ns, tokens) ==
    [ i \in 1..Len(tokens) |-> StopwordRow(ns, tokens[i]) ]

\* util.get_text_field_mask: 1 where the token id is not the padding id 0.
GetTextFieldMask(tokens) ==
    [ i \in 1..Len(tokens) |->
        [ j \in 1..Len(tokens[i]) |-> IF tokens[i][j] # 0 THEN 1 ELSE 0 ] ]

\* --------------------------------------------------------- the model object
MetricNames == {"cross_entropy", "negative_kl_divergence", "stopword_loss",
                "mapped_term_freq_sum", "mapped_term_freq_filled_ratio",
                "topic_contribution"}

\* No model has been constructed yet.
NoModel ==
    [ exists |-> FALSE, classification_mode |-> FALSE,
      has_sentiment_metric |-> FALSE, has_text_to_vec |-> FALSE,
      frozen |-> FALSE, tokens_to_index |-> {}, vae_in_dim |-> 0,
      metric_updates |-> [ m \in MetricNames |-> 0 ],
      sentiment_total_count |-> 0, forwards |-> 0 ]

\* The state of self at the end of __init__.
\*   has_sentiment_metric : 'sentiment' is a key of self.metrics
\*   has_text_to_vec      : the attribute self.text_to_vec is set
\*   vae_in_dim           : input width of self.variational_autoencoder
NewModel(classification_mode, text_to_vec, freeze, tokens, stopless_dim) ==
    [ exists |-> TRUE, classification_mode |-> classification_mode,
      has_sentiment_metric |-> classification_mode,
      has_text_to_vec |-> text_to_vec,
      frozen |-> freeze, tokens_to_index |-> tokens,
      vae_in_dim |-> stopless_dim,
      metric_updates |-> [ m \in MetricNames |-> 0 ],
      sentiment_total_count |-> 0, forwards |-> 0 ]

\* __init__ with pretrained_file: load_archive, then _init_from_archive.
\* The archive was trained on this vocabulary's files.  inner_module says
\* whether the archived model's text_encoder has a '_module' submodule;
\* _init_from_archive looks it up and raises KeyError otherwise.
InitFromArchive(classification_mode, freeze, inner_module) ==
    /\ UNCHANGED <<full_ns, stopless_ns, saves>>
    /\ IF inner_module
       THEN /\ model' = NewModel(classification_mode, TRUE, freeze,
                                 Range(full_ns),
                                 Len(AddStoplessTokens(<<>>, full_ns)))
            /\ ret' = [op |-> "__init__", status |-> "ok"]
       ELSE /\ model' = model
            /\ ret' = [op |-> "__init__", status |-> "KeyError"]

\* __init__ without pretrained_file and without the check for an existing
\* stopless namespace: the namespace is filled and saved every time.
InitFreshRegenerate(classification_mode, freeze) ==
    /\ full_ns' = full_ns
    /\ IF ~PaddingOovAssertion(full_ns)
       THEN /\ UNCHANGED <<stopless_ns, saves, model>>
            /\ ret' = [op |-> "__init__", status |-> "AssertionError"]
       ELSE /\ stopless_ns' = AddStoplessTokens(stopless_ns, full_ns)
            /\ saves' = saves + 1
            /\ model' = NewModel(classification_mode, FALSE, freeze,
                                 Range(full_ns), Len(stopless_ns'))
            /\ ret' = [op |-> "__init__", status |-> "ok"]

\* __init__ without pretrained_file.
InitFresh(classification_mode, freeze) ==
    /\ full_ns' = full_ns
    /\ IF stopless_ns = <<>> /\ ~PaddingOovAssertion(full_ns)
       THEN /\ UNCHANGED <<stopless_ns, saves, model>>
            /\ ret' = [op |-> "__init__", status |-> "AssertionError"]
       ELSE /\ stopless_ns' = IF stopless_ns = <<>>
                              THEN AddStoplessTokens(stopless_ns, full_ns)
                              ELSE stopless_ns
            /\ saves' = IF stopless_ns = <<>> THEN saves + 1 ELSE saves
            /\ model' = NewModel(classification_mode, FALSE, freeze,
                                 Range(full_ns), Len(stopless_ns'))
            /\ ret' = [op |-> "__init__", status |-> "ok"]

Construct(classification_mode, pretrained_file, freeze, inner_module) ==
    /\ constructions < MaxConstructions
    /\ constructions' = constructions + 1
    /\ call' = [op |-> "__init__", classification_mode |-> classification_mode,
                pretrained_file |-> pretrained_file,
                freeze_feature_extraction |-> freeze]
    /\ IF pretrained_file
       THEN InitFromArchive(classification_mode, freeze, inner_module)
       ELSE InitFresh(classification_mode, freeze)

SetToClassificationMode ==
    /\ model.exists
    /\ model' = [model EXCEPT !.has_text_to_vec = TRUE, !.frozen = TRUE]
    /\ call' = [op |-> "set_to_classification_mode"]
    /\ ret' = [op |-> "set_to_classification_mode", status |-> "ok"]
    /\ UNCHANGED <<full_ns, stopless_ns, saves, constructions>>

\* ----------------------------------------------------- learnable parameters
\* Fixed representative values of the parameters the optimizer owns.
TopicDim == 2
ThetaScale == TopicDim + 2
HMax == 2
num_samples == 50

\* text_field_embedder: one number per token id.
Embed(id) == IF id % 2 = 0 THEN 1 ELSE -1

\* vocabulary_projection_layer (Linear, no bias), hidden size 1.
ProjW(v) == (v % 3) - 1

\* stopword_projection_layer (gamma), hidden size 1.
Gamma == 1

\* beta[k][v], topic k, vocabulary position v (1-based).
Beta(k, v) == (k + v) % 3

\* ------------------------------------------------------------- rnn_forward
Clip(x) == IF x > HMax THEN HMax ELSE IF x < -HMax THEN -HMax ELSE x

\* The states h_1..h_T of one example; a padded step carries the state.
RECURSIVE RnnStates(_, _)
RnnStates(h, row) ==
    IF row = <<>> THEN <<>>
    ELSE LET h1 == IF row[1] = 0 THEN h ELSE Clip(h + Embed(row[1]))
         IN <<h1>> \o RnnStates(h1, Tail(row))

InitialState(hidden_state, i) == IF hidden_state = None THEN 0 ELSE hidden_state[i]

\* encoded_input: the state at unpadded steps, zero at padded steps.
RnnEncoded(tokens, hidden_state) ==
    [ i \in 1..Len(tokens) |->
        LET hs == RnnStates(InitialState(hidden_state, i), tokens[i])
        IN [ t \in 1..Len(tokens[i]) |->
               IF tokens[i][t] = 0 THEN 0 ELSE hs[t] ] ]

\* The hidden state rnn_forward returns: the last state of each example.
RnnFinalState(tokens, hidden_state) ==
    [ i \in 1..Len(tokens) |->
        LET hs == RnnStates(InitialState(hidden_state, i), tokens[i])
        IN IF hs = <<>> THEN InitialState(hidden_state, i) ELSE hs[Len(hs)] ]

\* ------------------------------------------------ language-model branch
\* logits = vocabulary_projection_layer(encoded_input)
VocabularyLogits(encoded, vocab_size) ==
    [ i \in 1..Len(encoded) |->
        [ t \in 1..Len(encoded[i]) |->
            [ v \in 1..vocab_size |-> encoded[i][t] * ProjW(v) ] ] ]

\* stopword_raw_probabilities = matmul(encoded_input, gamma)
StopwordRawProbabilities(encoded) ==
    [ i \in 1..Len(encoded) |->
        [ t \in 1..Len(encoded[i]) |-> encoded[i][t] * Gamma ] ]

\* sigmoid(x) >= 0.5, that is x >= 0; 1 is "stopword".
StopwordPredictions(raw) ==
    [ i \in 1..Len(raw) |->
        [ t \in 1..Len(raw[i]) |-> IF raw[i][t] >= 0 THEN 1 ELSE 0 ] ]

\* 1000 * log(1 + exp(-a)) for a >= 0, rounded.
Softplus1000(a) ==
    CASE a = 0 -> 693 [] a = 1 -> 313 [] a = 2 -> 127 [] a = 3 -> 49
      [] OTHER -> 18

Abs(x) == IF x < 0 THEN -x ELSE x

\* 1000 * the elementwise loss of BCEWithLogitsLoss at logit x, label y.
BCEWithLogits1000(x, y) ==
    1000 * (IF x > 0 THEN x ELSE 0) - 1000 * x * y + Softplus1000(Abs(x))

\* nn.BCEWithLogitsLoss(weight)(raw, labels): every elementwise loss is
\* multiplied by its weight and the default reduction takes the mean over
\* all elements.  The result is the fraction num / den.
MaskedStopwordCriterion(weight, raw, labels) ==
    [ num |-> SumSeq([ i \in 1..Len(raw) |->
                 SumSeq([ t \in 1..Len(raw[i]) |->
                    weight[i][t] * BCEWithLogits1000(raw[i][t], labels[i][t]) ]) ]),
      den |-> SumSeq([ i \in 1..Len(raw) |-> Len(raw[i]) ]) ]

\* theta of example i in Monte Carlo sample k, a point of the open simplex
\* in multiples of 1 / ThetaScale; seed stands for the draws of
\* self.noise.rsample during one call, which decide the heaviest topic.
Theta(seed, k, i) ==
    [ d \in 1..TopicDim |->
        IF d = ((seed + k + i) % TopicDim) + 1
        THEN 1 + (ThetaScale - TopicDim) ELSE 1 ]

\* topic_additions = mm(theta, beta), row of one example.
TopicAdditions(theta, vocab_size) ==
    [ v \in 1..vocab_size |->
        SumSeq([ k \in 1..TopicDim |-> theta[k] * Beta(k, v) ]) ]

\* The gate applied the wrong way round: stopword_predictions * additions.
GatedTopicAdditionsInverted(predictions, topic_additions) ==
    [ i \in 1..Len(predictions) |->
        [ t \in 1..Len(predictions[i]) |->
            [ v \in 1..Len(topic_additions[i]) |->
                predictions[i][t] * topic_additions[i][v] ] ] ]

\* gated_topic_additions =
\*   (1 - stopword_predictions) * topic_additions.unsqueeze(1).expand_as(logits)
GatedTopicAdditions(predictions, topic_additions) ==
    [ i \in 1..Len(predictions) |->
        [ t \in 1..Len(predictions[i]) |->
            [ v \in 1..Len(topic_additions[i]) |->
                (1 - predictions[i][t]) * topic_additions[i][v] ] ] ]

\* logits + gated_topic_additions, in multiples of 1 / ThetaScale.
CrossEntropyLogits(logits, gated) ==
    [ i \in 1..Len(logits) |->
        [ t \in 1..Len(logits[i]) |->
            [ v \in 1..Len(logits[i][t]) |->
                ThetaScale * logits[i][t][v] + gated[i][t][v] ] ] ]

\* One iteration of the loop over range(self.num_samples).
MonteCarloSample(seed, k, logits, predictions, vocab_size) ==
    LET theta == [ i \in 1..Len(logits) |-> Theta(seed, k, i) ]
        additions == [ i \in 1..Len(logits) |->
                         TopicAdditions(theta[i], vocab_size) ]
        gated == GatedTopicAdditions(predictions, additions)
    IN [ theta |-> theta, topic_additions |-> additions,
         gated_topic_additions |-> gated,
         cross_entropy_logits |-> CrossEntropyLogits(logits, gated) ]

\* ------------------------------------------------------------------ forward
\* The truth value Python gives "target_tokens and sentiment":
\* a dict is true when present, a one-element tensor is true when its
\* element is nonzero, a longer tensor has no truth value (RuntimeError).
AmbiguityCheck(target_tokens, sentiment) ==
    IF target_tokens = None \/ sentiment = None THEN "pass"
    ELSE IF Len(sentiment) > 1 THEN "RuntimeError"
    ELSE IF sentiment[1] # 0 THEN "AssertionError"
    ELSE "pass"

\* The metrics a forward call updates, each by the number of updates.
UpdateMetrics(updates, names, n) ==
    [ m \in MetricNames |-> IF m \in names THEN updates[m] + n ELSE updates[m] ]

Failed(status, freq) ==
    [ op |-> "forward", status |-> status, branch |-> "none",
      word_frequencies |-> freq ]

\* The branch "if target_tokens:" of forward, encoding from hidden_state.
LanguageModelBranchFrom(a, freq, hidden_state) ==
    LET vocab_size == Len(full_ns)
        encoded == RnnEncoded(a.input_tokens, hidden_state)
        logits == VocabularyLogits(encoded, vocab_size)
        raw == StopwordRawProbabilities(encoded)
        predictions == StopwordPredictions(raw)
        output_mask == GetTextFieldMask(a.target_tokens)
        labels == ComputeStopwordMask(full_ns, a.target_tokens)
    IN /\ ret' = [ op |-> "forward", status |-> "ok", branch |-> "lm",
                   word_frequencies |-> freq,
                   loss |-> "scalar",
                   hidden_state |-> RnnFinalState(a.input_tokens, hidden_state),
                   logits |-> logits,
                   stopword_raw_probabilities |-> raw,
                   stopword_predictions |-> predictions,
                   output_mask |-> output_mask,
                   stopword_labels |-> labels,
                   stopword_loss |-> MaskedStopwordCriterion(output_mask, raw, labels),
                   samples |-> [ k \in 1..num_samples |->
                       MonteCarloSample(a.seed, k, logits, predictions, vocab_size) ] ]
       /\ model' = [model EXCEPT
              !.forwards = @ + 1,
              !.metric_updates = UpdateMetrics(
                  UpdateMetrics(@, {"topic_contribution"}, num_samples),
                  {"mapped_term_freq_sum", "mapped_term_freq_filled_ratio",
                   "negative_kl_divergence", "cross_entropy", "stopword_loss"}, 1)]

\* The branch with a hidden state kept between calls: when the caller
\* passes none, the state the previous call returned is used.
LanguageModelBranchCached(a, freq) ==
    LanguageModelBranchFrom(a, freq,
        IF /\ a.hidden_state = None
           /\ ret.op = "forward" /\ ret.status = "ok"
           /\ Len(ret.hidden_state) = Len(a.input_tokens)
        THEN ret.hidden_state ELSE a.hidden_state)

\* The branch "if target_tokens:" of forward: rnn_forward is given the
\* hidden_state argument of the call.
LanguageModelBranch(a, freq) == LanguageModelBranchFrom(a, freq, a.hidden_state)

\* The branch "else:" of forward, _classify_sentiment.
ClassificationBranch(a, freq) ==
    LET counted == [model EXCEPT
            !.forwards = @ + 1,
            !.metric_updates = UpdateMetrics(@,
                {"mapped_term_freq_sum", "mapped_term_freq_filled_ratio"}, 1)]
    IN IF ~model.has_text_to_vec
       THEN /\ ret' = Failed("AttributeError", freq)
            /\ model' = counted
       ELSE IF a.sentiment = None
       THEN /\ ret' = Failed("TypeError", freq)
            /\ model' = counted
       ELSE IF ~model.has_sentiment_metric
       THEN /\ ret' = Failed("KeyError", freq)
            /\ model' = counted
       ELSE /\ ret' = [ op |-> "forward", status |-> "ok",
                        branch |-> "classification",
                        word_frequencies |-> freq,
                        loss |-> "scalar",
                        hidden_state |-> a.hidden_state ]
            /\ model' = [counted EXCEPT
                   !.sentiment_total_count = @ + Len(a.sentiment)]

\* forward(input_tokens, frequency_tokens, target_tokens, sentiment,
\*         hidden_state, exclude_topic_additions); a.seed picks the noise.
ForwardBody(a) ==
    LET check == AmbiguityCheck(a.target_tokens, a.sentiment)
        stopless == Touch(stopless_ns)
        freq == ComputeWordFrequencyVector(full_ns, stopless,
                    model.tokens_to_index, a.frequency_tokens)
    IN /\ UNCHANGED <<full_ns, saves, constructions>>
       /\ IF check # "pass"
          THEN /\ ret' = Failed(check, None)
               /\ model' = [model EXCEPT !.forwards = @ + 1]
               /\ stopless_ns' = stopless_ns
          ELSE /\ stopless_ns' = stopless
               /\ IF Len(stopless) # model.vae_in_dim
                  THEN /\ ret' = Failed("RuntimeError", freq)
                       /\ model' = [model EXCEPT !.forwards = @ + 1]
                  ELSE IF a.target_tokens # None
                  THEN LanguageModelBranch(a, freq)
                  ELSE ClassificationBranch(a, freq)

\* ------------------------------------------------------------------- inputs
\* The text the batches are cut from ("of" is a stopword outside the
\* vocabulary, "dog" is outside the four-token vocabularies).
Corpus == << <<"the", "cat", "dog">>, <<"cat", "of", "the">>, <<"dog">> >>

\* Indexing of a sentence by the "tokens" namespace.
EncodeSentence(ns, words) ==
    [ j \in 1..Len(words) |-> GetTokenIndex(ns, words[j]) ]

\* len tokens of a sentence from position start + 1 on, padded with 0.
Window(ids, start, len) ==
    [ j \in 1..len |-> IF start + j <= Len(ids) THEN ids[start + j] ELSE 0 ]

Batch(ns, picks, start, len) ==
    [ i \in 1..Len(picks) |->
        Window(EncodeSentence(ns, Corpus[picks[i]]), start, len) ]

LongestSentence ==
    CHOOSE n \in { Len(Corpus[c]) : c \in 1..Len(Corpus) } :
        \A c \in 1..Len(Corpus) : Len(Corpus[c]) <= n

\* A call of forward on the sentences picks: the BPTT chunk of length len at
\* start, its targets one token later, the whole text as frequency window.
ForwardArgs(ns, picks, start, len, with_target, sentiment, hidden, exclude, seed) ==
    [ op |-> "forward",
      input_tokens |-> Batch(ns, picks, start, len),
      frequency_tokens |-> Batch(ns, picks, 0, LongestSentence),
      target_tokens |-> IF with_target
                        THEN Batch(ns, picks, start + 1, len) ELSE None,
      sentiment |-> sentiment,
      hidden_state |-> hidden,
      exclude_topic_additions |-> exclude,
      seed |-> seed ]

Labels == {0, 1}

\* All token tensors of up to MaxBatch rows and up to MaxLen columns.
TokenTensors(ns) ==
    UNION { [ 1..b -> [ 1..l -> 0..(Len(ns) - 1) ] ] :
            b \in 1..MaxBatch, l \in 1..MaxLen }

HiddenStates(b) == {None} \cup { [ i \in 1..b |-> h ] : h \in {-1, 1} }

Idle == [op |-> "none"]

\* ------------------------------------------- the life of a model (Spec)
Init ==
    /\ full_ns \in FullNamespaces
    /\ stopless_ns \in {<<>>, AddStoplessTokens(<<>>, full_ns)}
    /\ saves = 0
    /\ constructions = 0
    /\ model = NoModel
    /\ call = Idle
    /\ ret = Idle

Forward ==
    /\ model.exists
    /\ model.forwards < MaxForwards
    /\ \E b \in 1..MaxBatch, with_target \in BOOLEAN :
       \E sentiment \in {None} \cup { [ i \in 1..b |-> l ] : l \in Labels } :
          LET a == ForwardArgs(full_ns, [ i \in 1..b |-> 1 ], 0, 1,
                               with_target, sentiment, None, FALSE, 0)
          IN call' = a /\ ForwardBody(a)

Next ==
    \/ \E classification_mode, freeze \in BOOLEAN :
          \/ Construct(classification_mode, FALSE, freeze, FALSE)
          \/ \E inner \in BOOLEAN :
                Construct(classification_mode, TRUE, freeze, inner)
    \/ SetToClassificationMode
    \/ Forward

Spec == Init /\ [][Next]_vars

\* ------------------------- one call of forward, language model (SpecLM)
InitLM ==
    /\ full_ns \in { ns \in FullNamespaces :
                       PaddingOovAssertion(ns) /\ "dog" \notin Range(ns) }
    /\ stopless_ns = AddStoplessTokens(<<>>, full_ns)
    /\ saves = 1
    /\ constructions = 1
    /\ model = NewModel(FALSE, FALSE, FALSE, Range(full_ns), Len(stopless_ns))
    /\ ret = Idle
    /\ \E b \in 1..MaxBatch, len \in 1..MaxLen, start \in 0..1,
          exclude \in BOOLEAN, seed \in 0..(TopicDim - 1) :
       \E picks \in [ 1..b -> 1..Len(Corpus) ], hidden_state \in HiddenStates(b) :
          call = ForwardArgs(full_ns, picks, start, len, TRUE, None,
                             hidden_state, exclude, seed)

ForwardLM ==
    /\ ret = Idle
    /\ call' = call
    /\ ForwardBody(call)

NextLM == ForwardLM

SpecLM == InitLM /\ [][NextLM]_vars

\* ---------------- the two token-window functions on their own (SpecFn)
InitFn ==
    /\ full_ns \in { ns \in FullNamespaces :
                       PaddingOovAssertion(ns) /\ "dog" \notin Range(ns) }
    /\ stopless_ns = AddStoplessTokens(<<>>, full_ns)
    /\ saves = 1
    /\ constructions = 1
    /\ model = NewModel(FALSE, FALSE, FALSE, Range(full_ns), Len(stopless_ns))
    /\ ret = Idle
    /\ \E tokens \in TokenTensors(full_ns) :
          call = [op |-> "tokens", tokens |-> tokens]

ApplyWordFrequencyVector ==
    /\ ret = Idle
    /\ ret' = [ op |-> "_compute_word_frequency_vector",
                value |-> ComputeWordFrequencyVector(full_ns,
                              Touch(stopless_ns), model.tokens_to_index,
                              call.tokens) ]
    /\ stopless_ns' = Touch(stopless_ns)
    /\ UNCHANGED <<full_ns, saves, constructions, model, call>>

ApplyStopwordMask ==
    /\ ret = Idle
    /\ ret' = [ op |-> "_compute_stopword_mask",
                value |-> ComputeStopwordMask(full_ns, call.tokens) ]
    /\ UNCHANGED <<full_ns, stopless_ns, saves, constructions, model, call>>

NextFn == ApplyWordFrequencyVector \/ ApplyStopwordMask

SpecFn == InitFn /\ [][NextFn]_vars

\* ------------------- consecutive calls of forward on one model (SpecChunks)
\* A model built with classification_mode, after set_to_classification_mode.
InitChunks ==
    /\ full_ns \in { ns \in FullNamespaces :
                       PaddingOovAssertion(ns) /\ "dog" \notin Range(ns) }
    /\ stopless_ns = AddStoplessTokens(<<>>, full_ns)
    /\ saves = 1
    /\ constructions = 1
    /\ model = NewModel(TRUE, TRUE, TRUE, Range(full_ns), Len(stopless_ns))
    /\ call = Idle
    /\ ret = Idle

\* The hidden states a training loop may pass for a batch of b examples:
\* none, a state of its own, or the state the previous call returned.
CarriedStates(b) ==
    HiddenStates(b) \cup
        (IF ret.op = "forward" /\ ret.status = "ok"
              /\ Len(ret.hidden_state) = b
         THEN {ret.hidden_state} ELSE {})

FirstSentences(b) == [ i \in 1..b |-> ((i - 1) % Len(Corpus)) + 1 ]

ForwardChunk ==
    /\ model.forwards < MaxChunks
    /\ \E b \in 1..MaxBatch, len \in 1..MaxLen, with_target \in BOOLEAN :
       \E hidden_state \in CarriedStates(b) :
          LET a == ForwardArgs(full_ns, FirstSentences(b), 0, len,
                       with_target,
                       IF with_target THEN None ELSE [ i \in 1..b |-> 1 ],
                       hidden_state, FALSE, 0)
          IN call' = a /\ ForwardBody(a)

NextChunks == ForwardChunk

SpecChunks == InitChunks /\ [][NextChunks]_vars

\* =================================================================== claims
LanguageModelReturned ==
    ret.op = "forward" /\ ret.status = "ok" /\ ret.branch = "lm"

\* C1: a forward call given both target_tokens and sentiment fails with an
\* error; it runs neither the language-model nor the classification branch.
C1_BothTargetsFail ==
    (ret.op = "forward" /\ call.target_tokens # None /\ call.sentiment # None)
        => (ret.status # "ok" /\ ret.branch = "none")

\* C2: with exclude_topic_additions the logits given to the sequence
\* cross-entropy are the plain vocabulary-projection logits, at every
\* timestep of every Monte Carlo sample.
C2_ExcludeSuppressesTopics ==
    (LanguageModelReturned /\ call.exclude_topic_additions)
        => \A k \in 1..num_samples :
             \A i \in 1..Len(ret.logits) :
               \A t \in 1..Len(ret.logits[i]) :
                 \A v \in 1..Len(ret.logits[i][t]) :
                   ret.samples[k].cross_entropy_logits[i][t][v]
                       = ThetaScale * ret.logits[i][t][v]

\* C3: every row of the word frequency vector is 0 at the padding index,
\* stopless index 0.
C3_PaddingEntryIsZero ==
    ret.op = "_compute_word_frequency_vector"
        => \A i \in 1..Len(ret.value) : ret.value[i][1] = 0

\* The window of some row holds several padding tokens, and some row holds
\* padding next to a token that is counted.
C3_Witness ==
    /\ ret.op = "_compute_word_frequency_vector"
    /\ \E i \in 1..Len(call.tokens) :
          Cardinality({ j \in 1..Len(call.tokens[i]) : call.tokens[i][j] = 0 }) >= 2
    /\ \E i \in 1..Len(call.tokens) :
          /\ 0 \in Range(call.tokens[i])
          /\ \E k \in 2..Len(ret.value[i]) : ret.value[i][k] > 0

\* C4: tokens outside the stopless namespace contribute nothing: every
\* entry (the padding entry aside) is the number of occurrences in the
\* window of the stopless token with that index.
C4_EntriesCountStoplessTokens ==
    ret.op = "_compute_word_frequency_vector"
        => \A i \in 1..Len(ret.value) :
             \A k \in 2..Len(ret.value[i]) :
               ret.value[i][k]
                   = CountOf(DecodeRow(full_ns, call.tokens[i]), stopless_ns[k])

\* C5: the stopword mask has the shape of the tokens and is 1 exactly at
\* the positions whose token decodes to a member of the stopword set.
C5_MaskMarksStopwords ==
    ret.op = "_compute_stopword_mask"
        => /\ Len(ret.value) = Len(call.tokens)
           /\ \A i \in 1..Len(call.tokens) :
                /\ Len(ret.value[i]) = Len(call.tokens[i])
                /\ \A j \in 1..Len(call.tokens[i]) :
                     (ret.value[i][j] = 1) <=>
                         (full_ns[call.tokens[i][j] + 1] \in STOP_WORDS_2)
                /\ \A j \in 1..Len(call.tokens[i]) : ret.value[i][j] \in {0, 1}

\* One row of only stopwords (all ones) and one row of padding and OOV
\* tokens (all zeros).
C5_Witness ==
    /\ ret.op = "_compute_stopword_mask"
    /\ \E i \in 1..Len(call.tokens) :
          /\ Len(call.tokens[i]) >= 2
          /\ \A j \in 1..Len(call.tokens[i]) : ret.value[i][j] = 1
    /\ \E i \in 1..Len(call.tokens) :
          /\ {0, 1} \subseteq Range(call.tokens[i])
          /\ \A j \in 1..Len(call.tokens[i]) : ret.value[i][j] = 0

\* theta . beta at vocabulary position v.
ThetaDotBeta(theta, v) == SumSeq([ d \in 1..TopicDim |-> theta[d] * Beta(d, v) ])

\* C6: in every Monte Carlo sample the gated topic addition is zero at
\* every vocabulary position of a timestep whose stopword decision is 1
\* (logit >= 0), and theta . beta of the example where the decision is 0.
C6_GateZeroesStopwordSteps ==
    LanguageModelReturned
        => \A k \in 1..num_samples :
             \A i \in 1..Len(ret.logits) :
               \A t \in 1..Len(ret.logits[i]) :
                 \A v \in 1..Len(ret.logits[i][t]) :
                   ret.samples[k].gated_topic_additions[i][t][v]
                     = IF ret.stopword_raw_probabilities[i][t] >= 0
                       THEN 0
                       ELSE ThetaDotBeta(ret.samples[k].theta[i], v)

\* Both decisions occur in one call, with a nonzero topic addition at the
\* gated timestep and at the open one.
C6_Witness ==
    /\ LanguageModelReturned
    /\ \E i \in 1..Len(ret.logits) :
          \E t \in 1..Len(ret.logits[i]) :
            /\ ret.stopword_predictions[i][t] = 1
            /\ \E v \in 1..Len(ret.logits[i][t]) :
                  ret.samples[1].topic_additions[i][v] # 0
    /\ \E i \in 1..Len(ret.logits) :
          \E t \in 1..Len(ret.logits[i]) :
            /\ ret.stopword_predictions[i][t] = 0
            /\ \E v \in 1..Len(ret.logits[i][t]) :
                  ret.samples[1].gated_topic_additions[i][t][v] # 0

NotStopword(token) == token \notin STOP_WORDS_2

\* The full namespace without the stopwords, in its own order.
FullWithoutStopwords == SelectSeq(full_ns, NotStopword)

C8_BadVocabularyAborts ==
    (ret.op = "__init__" /\ ~PaddingOovAssertion(full_ns))
        => ret.status # "ok"

\* C9: on any constructed model a forward call with sentiment and without
\* target_tokens completes, returns a scalar loss and adds the batch size
\* to the count of the sentiment accuracy metric.
C9_SentimentForwardCounts ==
    [][ (ret'.op = "forward" /\ call'.target_tokens = None
            /\ call'.sentiment # None)
          => /\ ret'.status = "ok"
             /\ ret'.loss = "scalar"
             /\ model'.sentiment_total_count
                    = model.sentiment_total_count + Len(call'.sentiment) ]_vars

\* The stopword losses of the unpadded positions, summed, times 1000.
UnpaddedLossSum ==
    SumSeq([ i \in 1..Len(ret.output_mask) |->
        SumSeq([ t \in 1..Len(ret.output_mask[i]) |->
            IF ret.output_mask[i][t] = 1
            THEN BCEWithLogits1000(ret.stopword_raw_probabilities[i][t],
                                   ret.stopword_labels[i][t])
            ELSE 0 ]) ])

UnpaddedPositions ==
    SumSeq([ i \in 1..Len(ret.output_mask) |-> SumSeq(ret.output_mask[i]) ])

\* C10: the stopword loss is the sum of the binary cross-entropy losses of
\* the unpadded positions divided by the number of unpadded positions.
C10_StopwordLossPerValidPosition ==
    (LanguageModelReturned /\ UnpaddedPositions > 0)
        => ret.stopword_loss.num * UnpaddedPositions
               = UnpaddedLossSum * ret.stopword_loss.den

\* C11: no hidden state is kept between forward calls: the language-model
\* branch encodes from the hidden_state argument of the call and returns
\* the encoder's final state, the classification branch returns the
\* argument as it is, and a call without hidden_state is encoded from the
\* initial state whatever the earlier calls returned.
C11_NoHiddenStateKept ==
    (ret.op = "forward" /\ ret.status = "ok") =>
        IF ret.branch = "lm"
        THEN /\ ret.hidden_state
                   = RnnFinalState(call.input_tokens, call.hidden_state)
             /\ ret.stopword_raw_probabilities
                   = StopwordRawProbabilities(
                         RnnEncoded(call.input_tokens, call.hidden_state))
             /\ call.hidden_state = None =>
                   ret.hidden_state
                     = RnnFinalState(call.input_tokens,
                           [ i \in 1..Len(call.input_tokens) |-> 0 ])
        ELSE ret.hidden_state = call.hidden_state

\* A second language-model call without hidden_state, after a call that
\* completed, and one that returns a nonzero state.
C11_Witness ==
    /\ LanguageModelReturned
    /\ model.forwards >= 2
    /\ model.metric_updates["cross_entropy"] >= 2
    /\ call.hidden_state = None
    /\ \E i \in 1..Len(ret.hidden_state) : ret.hidden_state[i] # 0

====
